---- MODULE Spec2Model ----
(***************************************************************************)
(* Alpine Signal Rating backend (server.js): the scoring engine            *)
(* calculateScores / detectPatterns and the /wizard_submit handler.        *)
(*                                                                         *)
(* JavaScript numbers are modelled as exact rationals <<n, d>> (d > 0, in  *)
(* lowest terms) together with NaN; rounding error of IEEE doubles is not  *)
(* modelled.  JavaScript values that may be absent or of several types are *)
(* tagged records ([type |-> "undefined"], [type |-> "number", ...], ...). *)
(* Strings that the code parses are sequences of one-character strings.    *)
(***************************************************************************)
EXTENDS Integers, Sequences, FiniteSets, TLC

VARIABLES
    wizardConfig,   \* the parsed wizard_questions.json, Undefined before it is loaded
    request,        \* the /wizard_submit request the event loop is running
    response,       \* the response to it, NoResponse until it is sent
    submissions,    \* the array in submissions_data.json, <<>> while there is no file
    emails,         \* the notification emails whose send has started
    served,         \* the /wizard_submit requests answered so far, with their responses
    process,        \* "starting", "listening" or "exited"
    files,          \* the two configuration files on disk at startup
    disk,           \* "ok", or "failing" while reads and writes of the log throw
    EMAIL_CONFIG,   \* the email settings read from the environment
    pending,        \* the /wizard_submit requests received and not yet run
    listing,        \* the last response of GET /api/submissions
    localStorage,   \* the browser's item 'wizardResults', Null when it is not set
    report,         \* what the results page shows, NoReport before it is loaded
    pdfRequest,     \* the body of the /api/generate-pdf request
    pdfPc,          \* where the handler of /api/generate-pdf stands
    browser,        \* the headless browser of that handler: "none", "open", "closed"
    pdfResponse     \* the response of /api/generate-pdf, NoResponse until it is sent

\* the state of the server written by /wizard_submit and /api/submissions
serverVars ==
    <<wizardConfig, request, response, submissions, emails, served,
      process, files, disk, EMAIL_CONFIG, pending, listing>>

\* the state of the results page
pageVars == <<localStorage, report>>

\* the state of the /api/generate-pdf handler
pdfVars == <<pdfRequest, pdfPc, browser, pdfResponse>>

vars == <<serverVars, pageVars, pdfVars>>

---------------------------------------------------------------------------
(* Bounds of the model *)

\* numeric ratings offered by a request are 0 .. MaxRatingInput
MaxRatingInput == 6

\* requests a server handles one after the other
MaxRequests == 3

\* the loop scores of a stored result are the multiples of 1 / ScoreSteps
ScoreSteps == 8

---------------------------------------------------------------------------
(* JavaScript numbers *)

NaN == <<0, 0>>

IsNaN(x) == x[2] = 0

Abs(n) == IF n < 0 THEN -n ELSE n

RECURSIVE GCD(_, _)
GCD(a, b) == IF b = 0 THEN a ELSE GCD(b, a % b)

\* the rational n/d in lowest terms with a positive denominator (d # 0)
Rat(n, d) ==
    LET g == GCD(Abs(n), Abs(d))
        s == IF d < 0 THEN -1 ELSE 1
    IN  <<(s * n) \div g, (s * d) \div g>>

Whole(n) == <<n, 1>>

Zero == Whole(0)
One == Whole(1)

Add(x, y) ==
    IF IsNaN(x) \/ IsNaN(y) THEN NaN
    ELSE LET g == GCD(x[2], y[2])
             l == (x[2] \div g) * y[2]
         IN  Rat(x[1] * (l \div x[2]) + y[1] * (l \div y[2]), l)

Neg(x) == IF IsNaN(x) THEN NaN ELSE <<-x[1], x[2]>>

Sub(x, y) == Add(x, Neg(y))

Mul(x, y) ==
    IF IsNaN(x) \/ IsNaN(y) THEN NaN
    ELSE LET a == Rat(x[1], y[2])
             b == Rat(y[1], x[2])
         IN  <<a[1] * b[1], a[2] * b[2]>>

\* x / y; every divisor in the code is a non-zero constant or a weight sum
Div(x, y) ==
    IF IsNaN(x) \/ IsNaN(y) \/ y[1] = 0 THEN NaN
    ELSE Mul(x, Rat(y[2], y[1]))

\* x < y; every comparison with NaN is false
Less(x, y) == ~IsNaN(x) /\ ~IsNaN(y) /\ x[1] * y[2] < y[1] * x[2]

Leq(x, y) == ~IsNaN(x) /\ ~IsNaN(y) /\ x[1] * y[2] <= y[1] * x[2]

\* Math.max / Math.min: NaN if either argument is NaN
MathMax(x, y) == IF IsNaN(x) \/ IsNaN(y) THEN NaN ELSE IF Less(x, y) THEN y ELSE x

MathMin(x, y) == IF IsNaN(x) \/ IsNaN(y) THEN NaN ELSE IF Less(y, x) THEN y ELSE x

\* Math.round: nearest integer, halves rounded towards +Infinity
MathRound(x) == IF IsNaN(x) THEN NaN ELSE Whole((2 * x[1] + x[2]) \div (2 * x[2]))

---------------------------------------------------------------------------
(* JavaScript values of a JSON request body *)

Undefined == [type |-> "undefined"]
JSNumber(n) == [type |-> "number", num |-> n]
\* a string that is parsed: its characters
JSChars(s) == [type |-> "string", chars |-> s]
\* a string that is only compared or looked up: a TLA+ string
JSString(s) == [type |-> "string", str |-> s]

DigitChars == <<"0", "1", "2", "3", "4", "5", "6", "7", "8", "9">>

IsDigit(c) == \E i \in 1..10 : DigitChars[i] = c

DigitValue(c) == (CHOOSE i \in 1..10 : DigitChars[i] = c) - 1

RECURSIVE NatToString(_)
NatToString(n) ==
    IF n < 10 THEN <<DigitChars[n + 1]>>
    ELSE NatToString(n \div 10) \o <<DigitChars[(n % 10) + 1]>>

\* Number.prototype.toString of an integer
NumberToString(n) == IF n < 0 THEN <<"-">> \o NatToString(-n) ELSE NatToString(n)

\* ToString of a request value, as parseInt applies it to its argument
ToChars(v) ==
    IF v.type = "undefined" THEN <<"u", "n", "d", "e", "f", "i", "n", "e", "d">>
    ELSE IF v.type = "number" THEN NumberToString(v.num)
    ELSE v.chars

RECURSIVE SkipWhitespace(_)
SkipWhitespace(s) ==
    IF s # <<>> /\ Head(s) = " " THEN SkipWhitespace(Tail(s)) ELSE s

\* the value of the longest prefix of digits of s, NaN if s starts with none
RECURSIVE ParseDigits(_, _, _)
ParseDigits(s, acc, seen) ==
    IF s # <<>> /\ IsDigit(Head(s))
    THEN ParseDigits(Tail(s), 10 * acc + DigitValue(Head(s)), TRUE)
    ELSE IF seen THEN Whole(acc) ELSE NaN

\* parseInt(v): leading whitespace, an optional sign, then decimal digits
parseInt(v) ==
    LET s == SkipWhitespace(ToChars(v))
    IN  IF s # <<>> /\ Head(s) = "-" THEN Neg(ParseDigits(Tail(s), 0, FALSE))
        ELSE IF s # <<>> /\ Head(s) = "+" THEN ParseDigits(Tail(s), 0, FALSE)
        ELSE ParseDigits(s, 0, FALSE)

\* NumberOr without the default
NumberOrNoDefault(x, dflt) == x

\* `x || dflt` on a number: NaN and 0 are falsy
NumberOr(x, dflt) == IF IsNaN(x) \/ x = Zero THEN dflt ELSE x

---------------------------------------------------------------------------
(* wizard_questions.json: four metric bundles per rating key "1".."5" *)

Questions ==
    {"question_1_pipeline_health", "question_2_sales_conversion",
     "question_3_customer_success", "question_4_economics_and_efficiency"}

\* the named metrics of each question's bundle, in the order of the file
MetricFields ==
    [question_1_pipeline_health |->
        <<"lead_velocity_rate", "mql_to_sql_conversion", "marketing_contribution_pipeline",
          "pipeline_coverage_ratio", "inbound_lead_volume_growth", "lead_response_time">>,
     question_2_sales_conversion |->
        <<"win_rate", "sales_cycle_length", "sql_acceptance_rate", "demo_to_proposal_rate",
          "proposal_to_won_rate", "pipeline_conversion_rate">>,
     question_3_customer_success |->
        <<"nrr", "grr", "churn_rate", "expansion_revenue_growth", "nps",
          "time_to_first_value">>,
     question_4_economics_and_efficiency |->
        <<"cac_payback_period", "ltv_cac", "burn_multiple", "sales_rep_ramp_time",
          "quota_attainment", "magic_number", "rule_of_40">>]

\* the value of each metric that the scoring formula takes as excellent
Benchmark ==
    [lead_velocity_rate |-> Rat(12, 100), mql_to_sql_conversion |-> Rat(28, 100),
     marketing_contribution_pipeline |-> Rat(38, 100), pipeline_coverage_ratio |-> Rat(38, 10),
     inbound_lead_volume_growth |-> Rat(25, 100), lead_response_time |-> Whole(24),
     win_rate |-> Rat(32, 100), sales_cycle_length |-> Whole(180),
     sql_acceptance_rate |-> Rat(90, 100), demo_to_proposal_rate |-> Rat(72, 100),
     proposal_to_won_rate |-> Rat(68, 100), pipeline_conversion_rate |-> Rat(42, 100),
     nrr |-> Rat(120, 100), grr |-> Rat(98, 100), churn_rate |-> One,
     expansion_revenue_growth |-> Rat(28, 100), nps |-> Whole(58),
     time_to_first_value |-> Whole(60),
     cac_payback_period |-> Whole(26), ltv_cac |-> Rat(58, 10), burn_multiple |-> Whole(4),
     sales_rep_ramp_time |-> Rat(65, 10), quota_attainment |-> Rat(88, 100),
     magic_number |-> Rat(125, 100), rule_of_40 |-> Whole(62)]

LowerIsBetter ==
    {"lead_response_time", "sales_cycle_length", "churn_rate", "time_to_first_value",
     "cac_payback_period", "burn_multiple", "sales_rep_ramp_time"}

\* the configurations the model is run with
Profiles == {"linear", "spread", "extreme"}

\* a metric's value in twentieths of its benchmark, for rating r and the j-th
\* metric of a bundle:
\*   linear   every metric reaches its benchmark at rating 5, a fifth per rating
\*   spread   the metrics of one bundle differ, some pass their benchmark
\*   extreme  rating 1 is far worse than the formula's worst case (negative
\*            growth, times twice the benchmark), rating 5 far better
Level(profile, r, j, lower) ==
    IF profile = "linear" THEN (IF lower THEN 20 - 4 * r ELSE 4 * r)
    ELSE IF profile = "spread" THEN (IF lower THEN 20 - 3 * r - j ELSE 3 * r + j)
    ELSE (IF lower THEN 50 - 10 * r + j ELSE 10 * r - 20 + j)

MetricBundle(profile, q, r) ==
    LET fields == MetricFields[q]
    IN  [f \in {fields[j] : j \in 1..Len(fields)} |->
            LET j == CHOOSE i \in 1..Len(fields) : fields[i] = f
            IN  Mul(Benchmark[f], Rat(Level(profile, r, j - 1, f \in LowerIsBetter), 20))]

RatingKeys == {NumberToString(r) : r \in 1..5}

MakeConfig(profile) ==
    [questions |->
        [q \in Questions |->
            [maps_to_metrics |->
                [k \in RatingKeys |->
                    MetricBundle(profile, q, CHOOSE r \in 1..5 : NumberToString(r) = k)]]]]

Configs == {MakeConfig(p) : p \in Profiles}

---------------------------------------------------------------------------
(* Objects and property lookup *)

\* properties every object literal inherits from Object.prototype, with the
\* string each inherited value converts to when used as a property key
ObjectPrototype ==
    [constructor |-> "function Object() { [native code] }",
     toString |-> "function toString() { [native code] }",
     __proto__ |-> "[object Object]"]

\* obj[key] for an object literal with string values: an own property, else
\* an inherited one, else undefined
GetProperty(obj, key) ==
    IF key \in DOMAIN obj THEN JSString(obj[key])
    ELSE IF key \in DOMAIN ObjectPrototype THEN [type |-> "object", str |-> ObjectPrototype[key]]
    ELSE Undefined

\* `v || dflt` that takes only an absent string, not the empty one, as missing
StringOrAbsentOnly(v, dflt) == IF v.type = "undefined" THEN dflt ELSE v.str

\* `v || dflt` on an optional string: undefined and "" are falsy
StringOr(v, dflt) == IF v.type = "undefined" \/ v.str = "" THEN dflt ELSE v.str

\* MetricsFor that falls back to the bundle of rating 3 for a missing key
MetricsForWithFallback(question, rating) ==
    LET key == IF IsNaN(rating) THEN <<"N", "a", "N">> ELSE NumberToString(rating[1])
    IN  [type |-> "object",
         metrics |-> question.maps_to_metrics[IF key \in DOMAIN question.maps_to_metrics
                                              THEN key ELSE <<"3">>]]

\* maps_to_metrics[rating.toString()]
MetricsFor(question, rating) ==
    LET key == IF IsNaN(rating) THEN <<"N", "a", "N">> ELSE NumberToString(rating[1])
    IN  IF key \in DOMAIN question.maps_to_metrics
        THEN [type |-> "object", metrics |-> question.maps_to_metrics[key]]
        ELSE Undefined

RECURSIVE SumValues(_, _)
SumValues(f, keys) ==
    IF keys = {} THEN Zero
    ELSE LET k == CHOOSE x \in keys : TRUE
         IN  Add(f[k], SumValues(f, keys \ {k}))

---------------------------------------------------------------------------
(* Scoring *)

BaseWeights ==
    [k \in {"pipeline", "conversion", "expansion", "economics"} |->
        IF k = "pipeline" THEN Rat(30, 100)
        ELSE IF k = "conversion" THEN Rat(30, 100)
        ELSE IF k = "expansion" THEN Rat(25, 100)
        ELSE Rat(15, 100)]

challengeWeightMap ==
    [pipeline |-> "pipeline", conversion |-> "conversion", retention |-> "expansion"]

\* AdjustedWeights with `weights` shared by all calls: the boost of an earlier
\* call is still in place when the next call boosts again
AdjustedWeightsShared(topChallenge) ==
    LET focus == GetProperty(challengeWeightMap, topChallenge)
        factor == IF submissions = <<>> THEN Rat(115, 100) ELSE Rat(115 * 115, 100 * 100)
    IN  IF focus.type = "undefined" \/ focus.str \notin DOMAIN BaseWeights THEN BaseWeights
        ELSE LET boosted ==
                    [k \in DOMAIN BaseWeights |->
                        IF k = focus.str THEN Mul(BaseWeights[k], factor) ELSE BaseWeights[k]]
                 totalWeight == SumValues(boosted, DOMAIN boosted)
             IN  [k \in DOMAIN boosted |-> Div(boosted[k], totalWeight)]

\* pipelineScoreOf that applies the boost of the top challenge 'pipeline' of
\* the current request to the loop score
pipelineScoreOfBoosted(m) ==
    LET score ==
            Add(Add(Add(Add(Add(
                Mul(Div(m.lead_velocity_rate, Rat(12, 100)), Rat(25, 100)),
                Mul(Div(m.mql_to_sql_conversion, Rat(28, 100)), Rat(25, 100))),
                Mul(Div(m.marketing_contribution_pipeline, Rat(38, 100)), Rat(20, 100))),
                Mul(Div(m.pipeline_coverage_ratio, Rat(38, 10)), Rat(15, 100))),
                Mul(Div(m.inbound_lead_volume_growth, Rat(25, 100)), Rat(10, 100))),
                Mul(Sub(One, Div(m.lead_response_time, Whole(24))), Rat(5, 100)))
    IN  IF request.body.answers.question_5_top_challenge = [type |-> "string", str |-> "pipeline"]
        THEN Mul(score, Rat(115, 100)) ELSE score

\* the weights of the overall score for a top challenge
AdjustedWeights(topChallenge) ==
    LET focus == GetProperty(challengeWeightMap, topChallenge)
    IN  IF focus.type = "undefined" THEN BaseWeights
        ELSE LET focusArea == focus.str
                 \* weights[focusArea] *= 1.15; undefined * 1.15 is NaN
                 boosted ==
                    [k \in DOMAIN BaseWeights \cup {focusArea} |->
                        IF k = focusArea
                        THEN (IF k \in DOMAIN BaseWeights
                              THEN Mul(BaseWeights[k], Rat(115, 100)) ELSE NaN)
                        ELSE BaseWeights[k]]
                 totalWeight == SumValues(boosted, DOMAIN boosted)
             IN  [k \in DOMAIN boosted |-> Div(boosted[k], totalWeight)]

pipelineScoreOf(m) ==
    Add(Add(Add(Add(Add(
        Mul(Div(m.lead_velocity_rate, Rat(12, 100)), Rat(25, 100)),
        Mul(Div(m.mql_to_sql_conversion, Rat(28, 100)), Rat(25, 100))),
        Mul(Div(m.marketing_contribution_pipeline, Rat(38, 100)), Rat(20, 100))),
        Mul(Div(m.pipeline_coverage_ratio, Rat(38, 10)), Rat(15, 100))),
        Mul(Div(m.inbound_lead_volume_growth, Rat(25, 100)), Rat(10, 100))),
        Mul(Sub(One, Div(m.lead_response_time, Whole(24))), Rat(5, 100)))

conversionScoreOf(m) ==
    Add(Add(Add(Add(Add(
        Mul(Div(m.win_rate, Rat(32, 100)), Rat(30, 100)),
        Mul(Sub(One, Div(m.sales_cycle_length, Whole(180))), Rat(20, 100))),
        Mul(Div(m.sql_acceptance_rate, Rat(90, 100)), Rat(15, 100))),
        Mul(Div(m.demo_to_proposal_rate, Rat(72, 100)), Rat(15, 100))),
        Mul(Div(m.proposal_to_won_rate, Rat(68, 100)), Rat(10, 100))),
        Mul(Div(m.pipeline_conversion_rate, Rat(42, 100)), Rat(10, 100)))

expansionScoreOf(m) ==
    Add(Add(Add(Add(Add(
        Mul(Div(m.nrr, Rat(120, 100)), Rat(30, 100)),
        Mul(Div(m.grr, Rat(98, 100)), Rat(20, 100))),
        Mul(Sub(One, m.churn_rate), Rat(20, 100))),
        Mul(Div(m.expansion_revenue_growth, Rat(28, 100)), Rat(15, 100))),
        Mul(Div(m.nps, Whole(58)), Rat(10, 100))),
        Mul(Sub(One, Div(m.time_to_first_value, Whole(60))), Rat(5, 100)))

economicsScoreOf(m) ==
    Add(Add(Add(Add(Add(Add(
        Mul(Sub(One, Div(m.cac_payback_period, Whole(26))), Rat(20, 100)),
        Mul(Div(m.ltv_cac, Rat(58, 10)), Rat(20, 100))),
        Mul(Sub(One, Div(m.burn_multiple, Whole(4))), Rat(15, 100))),
        Mul(Sub(One, Div(m.sales_rep_ramp_time, Rat(65, 10))), Rat(10, 100))),
        Mul(Div(m.quota_attainment, Rat(88, 100)), Rat(15, 100))),
        Mul(Div(m.magic_number, Rat(125, 100)), Rat(10, 100))),
        Mul(Div(m.rule_of_40, Whole(62)), Rat(10, 100)))

\* the nine metrics the recommendations are chosen from, in list order
allMetricsOf(pm, cm, em, ec) ==
    << [name |-> "Lead Velocity Rate", score |-> Div(pm.lead_velocity_rate, Rat(12, 100)),
        loop |-> "Pipeline", value |-> pm.lead_velocity_rate],
       [name |-> "MQL to SQL Conversion", score |-> Div(pm.mql_to_sql_conversion, Rat(28, 100)),
        loop |-> "Pipeline", value |-> pm.mql_to_sql_conversion],
       [name |-> "Lead Response Time", score |-> Sub(One, Div(pm.lead_response_time, Whole(24))),
        loop |-> "Pipeline", value |-> pm.lead_response_time],
       [name |-> "Win Rate", score |-> Div(cm.win_rate, Rat(32, 100)),
        loop |-> "Conversion", value |-> cm.win_rate],
       [name |-> "Sales Cycle Length", score |-> Sub(One, Div(cm.sales_cycle_length, Whole(180))),
        loop |-> "Conversion", value |-> cm.sales_cycle_length],
       [name |-> "Net Revenue Retention", score |-> Div(em.nrr, Rat(120, 100)),
        loop |-> "Expansion", value |-> em.nrr],
       [name |-> "Churn Rate", score |-> Sub(One, em.churn_rate),
        loop |-> "Expansion", value |-> em.churn_rate],
       [name |-> "CAC Payback Period", score |-> Sub(One, Div(ec.cac_payback_period, Whole(26))),
        loop |-> "Economics", value |-> ec.cac_payback_period],
       [name |-> "LTV:CAC Ratio", score |-> Div(ec.ltv_cac, Rat(58, 10)),
        loop |-> "Economics", value |-> ec.ltv_cac] >>

\* the words of each metric name that formatMetricValue looks for
NameWords ==
    [n \in {"Lead Velocity Rate", "MQL to SQL Conversion", "Lead Response Time", "Win Rate",
            "Sales Cycle Length", "Net Revenue Retention", "Churn Rate",
            "CAC Payback Period", "LTV:CAC Ratio"} |->
        IF n = "Lead Velocity Rate" THEN {"Rate"}
        ELSE IF n = "MQL to SQL Conversion" THEN {"Conversion"}
        ELSE IF n = "Lead Response Time" THEN {"Time"}
        ELSE IF n = "Win Rate" THEN {"Rate"}
        ELSE IF n = "Sales Cycle Length" THEN {"Length"}
        ELSE IF n = "Net Revenue Retention" THEN {"Retention"}
        ELSE IF n = "Churn Rate" THEN {"Rate"}
        ELSE IF n = "CAC Payback Period" THEN {"Period"}
        ELSE {"Ratio"}]

Includes(metricName, word) == word \in NameWords[metricName]

\* value.toFixed(digits) for digits in {1, 2}: value rounded to that many decimals
ToFixed(value, digits) ==
    LET p == IF digits = 1 THEN 10 ELSE 100
    IN  Div(MathRound(Mul(value, Whole(p))), Whole(p))

\* the formatted value as <<number, unit>>
formatMetricValue(metricName, value) ==
    IF Includes(metricName, "Rate") \/ Includes(metricName, "Conversion")
        \/ Includes(metricName, "Retention")
    THEN <<MathRound(Mul(value, Whole(100))), "%">>
    ELSE IF Includes(metricName, "Time") \/ Includes(metricName, "Length")
        \/ Includes(metricName, "Period")
    THEN <<MathRound(value), " days">>
    ELSE IF Includes(metricName, "Ratio") THEN <<ToFixed(value, 1), ":1">>
    ELSE <<ToFixed(value, 2), "">>

\* InsertByScore placing a before the elements of equal score (not stable)
InsertByScoreUnstable(sorted, a) ==
    LET before == {i \in 1..Len(sorted) : Leq(a.score, sorted[i].score)}
        k == IF before = {} THEN Len(sorted) + 1
             ELSE CHOOSE i \in before : \A j \in before : i <= j
    IN  SubSeq(sorted, 1, k - 1) \o <<a>> \o SubSeq(sorted, k, Len(sorted))

\* Array.prototype.sort with the comparator (a, b) => a.score - b.score: a is
\* placed before the first element it is strictly smaller than (stable)
InsertByScore(sorted, a) ==
    LET before == {i \in 1..Len(sorted) : Less(a.score, sorted[i].score)}
        k == IF before = {} THEN Len(sorted) + 1
             ELSE CHOOSE i \in before : \A j \in before : i <= j
    IN  SubSeq(sorted, 1, k - 1) \o <<a>> \o SubSeq(sorted, k, Len(sorted))

RECURSIVE SortByScore(_)
SortByScore(metrics) ==
    IF metrics = <<>> THEN <<>>
    ELSE InsertByScore(SortByScore(SubSeq(metrics, 1, Len(metrics) - 1)),
                       metrics[Len(metrics)])

\* .sort(...).slice(0, 5).map(...)
priorityRecommendationsOf(allMetrics) ==
    LET sorted == SortByScore(allMetrics)
        top == SubSeq(sorted, 1, IF Len(sorted) < 5 THEN Len(sorted) ELSE 5)
    IN  [i \in 1..Len(top) |->
            [name |-> top[i].name,
             score |-> MathRound(Mul(top[i].score, Whole(100))),
             loop |-> top[i].loop,
             description |-> <<"Current value: ">> \o formatMetricValue(top[i].name, top[i].value)]]

\* isPipelineConversionGap with > 4 for >= 4
isPipelineConversionGapStrict(pipelineRating, conversionRating) ==
    Less(Whole(4), pipelineRating) /\ Leq(conversionRating, Whole(2))

\* isSystematicIssues that also asks for weak economics
isSystematicIssuesAllFour(pipelineRating, conversionRating, expansionRating) ==
    Leq(pipelineRating, Whole(2)) /\ Leq(conversionRating, Whole(2))
        /\ Leq(expansionRating, Whole(1))

\* isLeakyBucket with >= 2 for >= 4
isLeakyBucketLoose(conversionRating, expansionRating) ==
    Leq(Whole(2), conversionRating) /\ Leq(expansionRating, Whole(2))

\* isUnitEconomicsProblem with <= 3 for <= 2
isUnitEconomicsProblemLoose(pipelineRating, conversionRating, economicsRating) ==
    Leq(economicsRating, Whole(3))
        /\ (Leq(Whole(3), pipelineRating) \/ Leq(Whole(3), conversionRating))

\* the four threshold predicates of detectPatterns
isPipelineConversionGap(pipelineRating, conversionRating) ==
    Leq(Whole(4), pipelineRating) /\ Leq(conversionRating, Whole(2))

isLeakyBucket(conversionRating, expansionRating) ==
    Leq(Whole(4), conversionRating) /\ Leq(expansionRating, Whole(2))

isSystematicIssues(pipelineRating, conversionRating, expansionRating) ==
    Leq(pipelineRating, Whole(2)) /\ Leq(conversionRating, Whole(2))
        /\ Leq(expansionRating, Whole(2))

isUnitEconomicsProblem(pipelineRating, conversionRating, economicsRating) ==
    Leq(economicsRating, Whole(2))
        /\ (Leq(Whole(3), pipelineRating) \/ Leq(Whole(3), conversionRating))

\* detectPatterns that tests the derived scores where the code tests the
\* pipeline and conversion ratings (a score of 0.7 for rating 4, 0.4 for 2)
detectPatternsByScore(answers, pipelineScore, conversionScore, expansionScore) ==
    LET expansionRating == NumberOr(parseInt(answers.question_3_customer_success), Whole(3))
        economicsRating == NumberOr(parseInt(answers.question_4_economics_and_efficiency), Whole(3))
        strong(score) == Leq(Rat(7, 10), score)
        weak(score) == Leq(score, Rat(4, 10))
    IN  (IF strong(pipelineScore) /\ weak(conversionScore)
         THEN <<[pattern |-> "pipeline_conversion_gap",
                 description |-> "Strong pipeline but weak conversion - focus on sales enablement",
                 priority |-> "high"]>>
         ELSE <<>>)
        \o
        (IF strong(conversionScore) /\ Leq(expansionRating, Whole(2))
         THEN <<[pattern |-> "leaky_bucket",
                 description |-> "Acquiring customers but losing them - prioritize customer success",
                 priority |-> "critical"]>>
         ELSE <<>>)
        \o
        (IF weak(pipelineScore) /\ weak(conversionScore) /\ Leq(expansionRating, Whole(2))
         THEN <<[pattern |-> "systematic_issues",
                 description |-> "Multiple weak areas suggest fundamental GTM challenges",
                 priority |-> "critical"]>>
         ELSE <<>>)
        \o
        (IF Leq(economicsRating, Whole(2)) /\ ~(weak(pipelineScore) /\ weak(conversionScore))
         THEN <<[pattern |-> "unit_economics_problem",
                 description |-> "Operations functional but economics unsustainable",
                 priority |-> "high"]>>
         ELSE <<>>)

\* detectPatterns that tests unit_economics_problem first
detectPatternsUnitFirst(answers, pipelineScore, conversionScore, expansionScore) ==
    LET pipelineRating == NumberOr(parseInt(answers.question_1_pipeline_health), Whole(3))
        conversionRating == NumberOr(parseInt(answers.question_2_sales_conversion), Whole(3))
        expansionRating == NumberOr(parseInt(answers.question_3_customer_success), Whole(3))
        economicsRating == NumberOr(parseInt(answers.question_4_economics_and_efficiency), Whole(3))
    IN  (IF isUnitEconomicsProblem(pipelineRating, conversionRating, economicsRating)
         THEN <<[pattern |-> "unit_economics_problem",
                 description |-> "Operations functional but economics unsustainable",
                 priority |-> "high"]>>
         ELSE <<>>)
        \o
        (IF isPipelineConversionGap(pipelineRating, conversionRating)
         THEN <<[pattern |-> "pipeline_conversion_gap",
                 description |-> "Strong pipeline but weak conversion - focus on sales enablement",
                 priority |-> "high"]>>
         ELSE <<>>)
        \o
        (IF isLeakyBucket(conversionRating, expansionRating)
         THEN <<[pattern |-> "leaky_bucket",
                 description |-> "Acquiring customers but losing them - prioritize customer success",
                 priority |-> "critical"]>>
         ELSE <<>>)
        \o
        (IF isSystematicIssues(pipelineRating, conversionRating, expansionRating)
         THEN <<[pattern |-> "systematic_issues",
                 description |-> "Multiple weak areas suggest fundamental GTM challenges",
                 priority |-> "critical"]>>
         ELSE <<>>)

\* the patterns that apply to the four ratings, in the order they are tested
detectPatterns(answers, pipelineScore, conversionScore, expansionScore) ==
    LET pipelineRating == NumberOr(parseInt(answers.question_1_pipeline_health), Whole(3))
        conversionRating == NumberOr(parseInt(answers.question_2_sales_conversion), Whole(3))
        expansionRating == NumberOr(parseInt(answers.question_3_customer_success), Whole(3))
        economicsRating == NumberOr(parseInt(answers.question_4_economics_and_efficiency), Whole(3))
    IN  (IF isPipelineConversionGap(pipelineRating, conversionRating)
         THEN <<[pattern |-> "pipeline_conversion_gap",
                 description |-> "Strong pipeline but weak conversion - focus on sales enablement",
                 priority |-> "high"]>>
         ELSE <<>>)
        \o
        (IF isLeakyBucket(conversionRating, expansionRating)
         THEN <<[pattern |-> "leaky_bucket",
                 description |-> "Acquiring customers but losing them - prioritize customer success",
                 priority |-> "critical"]>>
         ELSE <<>>)
        \o
        (IF isSystematicIssues(pipelineRating, conversionRating, expansionRating)
         THEN <<[pattern |-> "systematic_issues",
                 description |-> "Multiple weak areas suggest fundamental GTM challenges",
                 priority |-> "critical"]>>
         ELSE <<>>)
        \o
        (IF isUnitEconomicsProblem(pipelineRating, conversionRating, economicsRating)
         THEN <<[pattern |-> "unit_economics_problem",
                 description |-> "Operations functional but economics unsustainable",
                 priority |-> "high"]>>
         ELSE <<>>)

TypeError == [threw |-> "TypeError"]

Threw(r) == "threw" \in DOMAIN r

\* calculateScores(answers): the result record, or the TypeError thrown when
\* a rating has no metric bundle
calculateScores(answers) ==
    LET questions == wizardConfig.questions
        pipelineRating == NumberOr(parseInt(answers.question_1_pipeline_health), Whole(3))
        conversionRating == NumberOr(parseInt(answers.question_2_sales_conversion), Whole(3))
        expansionRating == NumberOr(parseInt(answers.question_3_customer_success), Whole(3))
        economicsRating == NumberOr(parseInt(answers.question_4_economics_and_efficiency), Whole(3))
        topChallenge == StringOr(answers.question_5_top_challenge, "pipeline")
        pipelineMetrics == MetricsFor(questions.question_1_pipeline_health, pipelineRating)
        conversionMetrics == MetricsFor(questions.question_2_sales_conversion, conversionRating)
        expansionMetrics == MetricsFor(questions.question_3_customer_success, expansionRating)
        economicsMetrics == MetricsFor(questions.question_4_economics_and_efficiency, economicsRating)
    IN  IF \/ pipelineMetrics = Undefined
           \/ conversionMetrics = Undefined
           \/ expansionMetrics = Undefined
           \/ economicsMetrics = Undefined
        THEN TypeError
        ELSE
        LET pm == pipelineMetrics.metrics
            cm == conversionMetrics.metrics
            em == expansionMetrics.metrics
            ec == economicsMetrics.metrics
            pipelineScore == pipelineScoreOf(pm)
            conversionScore == conversionScoreOf(cm)
            expansionScore == expansionScoreOf(em)
            weights == AdjustedWeights(topChallenge)
            economicsScore == economicsScoreOf(ec)
            overallSSI ==
                Add(Add(Add(Mul(pipelineScore, weights["pipeline"]),
                            Mul(conversionScore, weights["conversion"])),
                        Mul(expansionScore, weights["expansion"])),
                    Mul(economicsScore, weights["economics"]))
        IN  [overall_ssi |-> MathMax(Zero, MathMin(One, overallSSI)),
             loop_scores |->
                [Pipeline |-> MathMax(Zero, MathMin(One, pipelineScore)),
                 Conversion |-> MathMax(Zero, MathMin(One, conversionScore)),
                 Expansion |-> MathMax(Zero, MathMin(One, expansionScore))],
             priority_recommendations |-> priorityRecommendationsOf(allMetricsOf(pm, cm, em, ec)),
             detected_patterns |->
                detectPatterns(answers, pipelineScore, conversionScore, expansionScore)]

---------------------------------------------------------------------------
(* POST /wizard_submit *)

Null == [type |-> "null"]

\* `parseInt(v) || null` as stored in a submission record
RatingOrNull(v) ==
    LET n == parseInt(v)
    IN  IF IsNaN(n) \/ n = Zero THEN Null ELSE JSNumber(n[1])

\* `v || dflt` on an optional string, as a value of the stored record
ValueOr(v, dflt) == IF v.type = "undefined" \/ v.str = "" THEN dflt ELSE v

NoResponse == [status |-> 0]

submissionDataOf(body, results) ==
    LET answers == body.answers
    IN  [client_id |-> body.client_id,
         client_name |-> ValueOr(body.client_name, JSString("Unknown")),
         email |-> ValueOr(body.email, JSString("")),
         cohort |-> ValueOr(answers.arr, JSString("unknown")),
         sector |-> ValueOr(answers.sector, JSString("unknown")),
         employees |-> ValueOr(answers.employees, JSString("unknown")),
         answers |->
            [pipeline_health |-> RatingOrNull(answers.question_1_pipeline_health),
             sales_conversion |-> RatingOrNull(answers.question_2_sales_conversion),
             customer_success |-> RatingOrNull(answers.question_3_customer_success),
             economics_efficiency |-> RatingOrNull(answers.question_4_economics_and_efficiency),
             top_challenge |-> ValueOr(answers.question_5_top_challenge, Null)],
         scores |->
            [overall_ssi |-> results.overall_ssi,
             pipeline |-> results.loop_scores.Pipeline,
             conversion |-> results.loop_scores.Conversion,
             expansion |-> results.loop_scores.Expansion],
         patterns |-> results.detected_patterns]

NoRequest == [none |-> TRUE]

\* `!v` on the answers of a request body
FalsyNullOnly(v) == v = Null

Falsy(v) == v = Undefined \/ v = Null

\* saveSubmissionData that lets a failure of the read or the write escape
saveSubmissionDataRethrows(log, data, diskState) ==
    IF diskState = "failing" THEN [threw |-> "Error"] ELSE [log |-> Append(log, data)]

\* saveSubmissionData that writes the new record alone
saveSubmissionDataOverwrite(log, data, diskState) ==
    IF diskState = "failing" THEN [log |-> log] ELSE [log |-> <<data>>]

\* saveSubmissionData that writes the array as it was when the oldest request
\* still running or waiting was received, with the new record pushed
saveSubmissionDataStale(log, data, diskState) ==
    IF diskState = "failing" THEN [log |-> log]
    ELSE [log |-> Append(SubSeq(log, 1, Len(log) - Len(pending)), data)]

\* saveSubmissionData: read the log, push the record, write the log back; a
\* failure of the read, the parse or the write is caught inside and the log
\* stays as it was
saveSubmissionData(log, data, diskState) ==
    IF diskState = "failing" THEN [log |-> log] ELSE [log |-> Append(log, data)]

\* calculateScores that overwrites a metric of the rating-3 pipeline bundle
wizardConfigAfterInPlace(config, answers) ==
    [config EXCEPT
        !.questions.question_1_pipeline_health.maps_to_metrics[<<"3">>].lead_velocity_rate = Zero]

\* the configuration after calculateScores(answers) returned: the bundles are
\* read, the list that is sorted and the weights that are adjusted are local
wizardConfigAfter(config, answers) == config

\* sendNotificationEmail that sends whatever the settings say
sendNotificationEmailAlways(config, mails, data) ==
    Append(mails, [data |-> data, state |-> "pending"])

\* sendNotificationEmail up to its first await: the emails whose send has
\* started; none is started when notifications are disabled or the API key is
\* not set (EMAIL_SERVICE is left at its default, SendGrid)
sendNotificationEmail(config, mails, data) ==
    IF ~config.enabled \/ ~config.sendgridApiKey THEN mails
    ELSE Append(mails, [data |-> data, state |-> "pending"])

\* the handler of POST /wizard_submit, run to its end on the current request;
\* everything thrown inside its try block is answered with 500
WizardSubmit ==
    /\ UNCHANGED <<pageVars, pdfVars>>
    /\ process = "listening"
    /\ request # NoRequest
    /\ response = NoResponse
    /\ IF Falsy(request.body.answers)
       THEN /\ response' = [status |-> 400, body |-> [error |-> "Missing answers data"]]
            /\ UNCHANGED <<submissions, emails>>
       ELSE \E results \in {IF request.body.answers = Undefined \/ wizardConfig = Undefined
                            THEN TypeError
                            ELSE calculateScores(request.body.answers)} :
                IF Threw(results)
                THEN /\ response' =
                            [status |-> 500,
                             body |-> [error |-> "Failed to process submission",
                                       message |-> results.threw]]
                     /\ UNCHANGED <<submissions, emails>>
                ELSE \E submissionData \in {submissionDataOf(request.body, results)} :
                     \E saved \in {saveSubmissionData(submissions, submissionData, disk)} :
                        IF Threw(saved)
                        THEN /\ response' =
                                    [status |-> 500,
                                     body |-> [error |-> "Failed to process submission",
                                               message |-> saved.threw]]
                             /\ UNCHANGED <<submissions, emails>>
                        ELSE /\ submissions' = saved.log
                             /\ emails' = sendNotificationEmail(EMAIL_CONFIG, emails, submissionData)
                             /\ response' =
                                    [status |-> 200,
                                     body |-> [success |-> TRUE,
                                               client_id |-> request.body.client_id,
                                               results |-> results]]
    /\ wizardConfig' =
            IF response'.status = 200 THEN wizardConfigAfter(wizardConfig, request.body.answers)
            ELSE wizardConfig
    /\ served' = Append(served, [body |-> request.body, response |-> response'])
    /\ UNCHANGED <<request, process, files, disk, EMAIL_CONFIG, pending, listing>>

\* the promise of a started send settles: the mail is sent, or the send fails
\* and the rejection is logged by the handler's .catch
EmailSettle ==
    /\ UNCHANGED <<pageVars, pdfVars>>
    /\ \E i \in 1..Len(emails) :
        /\ emails[i].state = "pending"
        /\ \E outcome \in {"sent", "failed"} :
                emails' = [emails EXCEPT ![i].state = outcome]
    /\ UNCHANGED <<wizardConfig, request, response, submissions, served,
                   process, files, disk, EMAIL_CONFIG, pending, listing>>

---------------------------------------------------------------------------
(* GET /api/submissions *)

\* the query strings of the modelled requests: no filter, or a cohort
\* (start_date and end_date are not given)
QueryInputs == [cohort : {Undefined, JSString("1-5M")}, sector : {Undefined}]

RECURSIVE Filter(_, _, _)
\* s.filter(r => r[field] === value)
Filter(s, field, value) ==
    IF s = <<>> THEN <<>>
    ELSE (IF Head(s)[field] = value THEN <<Head(s)>> ELSE <<>>)
            \o Filter(Tail(s), field, value)

\* the response of the handler for the log and the query
submissionsResponse(log, query, diskState) ==
    IF log = <<>> THEN [status |-> 200, body |-> [submissions |-> <<>>, total |-> 0]]
    ELSE IF diskState = "failing"
    THEN [status |-> 500, body |-> [error |-> "Failed to read submissions data"]]
    ELSE LET byCohort ==
                IF query.cohort = Undefined \/ query.cohort = JSString("") THEN log
                ELSE Filter(log, "cohort", query.cohort)
             filtered ==
                IF query.sector = Undefined \/ query.sector = JSString("") THEN byCohort
                ELSE Filter(byCohort, "sector", query.sector)
         IN  [status |-> 200,
              body |-> [submissions |-> filtered, total |-> Len(filtered),
                        total_all |-> Len(log)]]

GetSubmissions ==
    /\ UNCHANGED <<pageVars, pdfVars>>
    /\ process = "listening"
    /\ \E query \in QueryInputs : listing' = submissionsResponse(submissions, query, disk)
    /\ UNCHANGED <<wizardConfig, request, response, submissions, emails, served,
                   process, files, disk, EMAIL_CONFIG, pending>>

---------------------------------------------------------------------------
(* Startup *)

Missing == [state |-> "missing", json |-> Undefined]

Malformed == [state |-> "malformed", json |-> Undefined]

FileOf(json) == [state |-> "ok", json |-> json]

\* Loads that takes an unparsable file as an empty configuration
LoadsUnlessMissing(file) == file.state # "missing"

\* fs.readFileSync and JSON.parse of a configuration file succeed
Loads(file) == file.state = "ok"

\* the top of server.js up to app.listen: each configuration file is read and
\* parsed in turn, and a failure ends the process with exit code 1
Startup ==
    /\ UNCHANGED <<pageVars, pdfVars>>
    /\ process = "starting"
    /\ IF ~Loads(files.wizard_questions)
       THEN process' = "exited" /\ UNCHANGED wizardConfig
       ELSE /\ wizardConfig' = files.wizard_questions.json
            /\ process' = IF Loads(files.fix_library) THEN "listening" ELSE "exited"
    /\ UNCHANGED <<request, response, submissions, emails, served,
                   files, disk, EMAIL_CONFIG, pending, listing>>

---------------------------------------------------------------------------
(* Requests *)

RatingInputs ==
    {Undefined} \cup {JSNumber(n) : n \in 0..MaxRatingInput}
        \cup {JSChars(<<"a", "b", "c">>), JSChars(<<"-", "1">>)}

TopChallengeInputs ==
    {Undefined} \cup
    {JSString(s) : s \in {"", "pipeline", "conversion", "retention", "economics", "constructor"}}

\* answers whose four ratings are numbers 1..5, with every top challenge
ValidAnswerInputs ==
    [question_1_pipeline_health : {JSNumber(n) : n \in 1..5},
     question_2_sales_conversion : {JSNumber(n) : n \in 1..5},
     question_3_customer_success : {JSNumber(n) : n \in 1..5},
     question_4_economics_and_efficiency : {JSNumber(n) : n \in 1..5},
     question_5_top_challenge : TopChallengeInputs,
     arr : {Undefined}, sector : {Undefined}, employees : {Undefined}]

\* answers with every combination of raw rating values and one top challenge
\* (the ratings are parsed independently of the top challenge)
RawAnswerInputs ==
    [question_1_pipeline_health : RatingInputs,
     question_2_sales_conversion : RatingInputs,
     question_3_customer_success : RatingInputs,
     question_4_economics_and_efficiency : RatingInputs,
     question_5_top_challenge : {JSString("conversion")},
     arr : {Undefined}, sector : {Undefined}, employees : {Undefined}]

BodyInputs(answerInputs) ==
    [answers : answerInputs,
     client_id : {JSString("wizard_1")}, client_name : {Undefined}, email : {Undefined}]

NoReport == [shown |-> "nothing"]

\* no results page is open and no PDF is asked for
NoPageNoPdf ==
    /\ localStorage = Null
    /\ report = NoReport
    /\ pdfRequest = NoRequest
    /\ pdfPc = "idle"
    /\ browser = "none"
    /\ pdfResponse = NoResponse

EmailDisabled == [enabled |-> FALSE, sendgridApiKey |-> FALSE]

EmailReady == [enabled |-> TRUE, sendgridApiKey |-> TRUE]

\* one request on a server that has started, with a working disk and email
\* notifications disabled: a request with valid ratings under any of the
\* configurations, or a request with raw rating values or without answers
\* under one configuration (ratings are parsed independently of the metric
\* values)
Init ==
    /\ \/ /\ wizardConfig \in Configs
          /\ request \in [body : BodyInputs(ValidAnswerInputs)]
       \/ /\ wizardConfig = MakeConfig("spread")
          /\ request \in [body : BodyInputs(RawAnswerInputs \cup {Undefined})]
    /\ response = NoResponse
    /\ submissions = <<>>
    /\ emails = <<>>
    /\ served = <<>>
    /\ process = "listening"
    /\ files = [wizard_questions |-> FileOf(wizardConfig), fix_library |-> FileOf([type |-> "object"])]
    /\ disk = "ok"
    /\ EMAIL_CONFIG = EmailDisabled
    /\ pending = <<>>
    /\ listing = NoResponse
    /\ NoPageNoPdf

Next == WizardSubmit

Spec == Init /\ [][Next]_vars

---------------------------------------------------------------------------
(* A server from its start, handling requests one after the other *)

AnswersOf(p, c, e, ec, challenge) ==
    [question_1_pipeline_health |-> JSNumber(p),
     question_2_sales_conversion |-> JSNumber(c),
     question_3_customer_success |-> JSNumber(e),
     question_4_economics_and_efficiency |-> JSNumber(ec),
     question_5_top_challenge |-> JSString(challenge),
     arr |-> Undefined, sector |-> Undefined, employees |-> Undefined]

\* the requests of a session: two that differ in the top challenge only, two
\* that share one rating each with them, one whose scoring throws and one
\* without answers
ServerAnswerInputs ==
    {AnswersOf(4, 2, 3, 3, "conversion"), AnswersOf(4, 2, 3, 3, "pipeline"),
     AnswersOf(2, 2, 2, 2, "retention"), AnswersOf(4, 3, 2, 2, "retention"),
     AnswersOf(6, 1, 1, 1, "pipeline"), Undefined}

\* the configuration files found at startup: each is missing, unparsable or
\* well-formed, wizard_questions.json with one of two configurations
FileInputs ==
    [wizard_questions :
        {Missing, Malformed, FileOf(MakeConfig("linear")), FileOf(MakeConfig("extreme"))},
     fix_library : {Missing, Malformed, FileOf([type |-> "object"])}]

InitServer ==
    /\ wizardConfig = Undefined
    /\ request = NoRequest
    /\ response = NoResponse
    /\ submissions = <<>>
    /\ emails = <<>>
    /\ served = <<>>
    /\ process = "starting"
    /\ files \in FileInputs
    /\ disk = "ok"
    /\ EMAIL_CONFIG \in {EmailDisabled, EmailReady}
    /\ pending = <<>>
    /\ listing = NoResponse
    /\ NoPageNoPdf

\* the event loop is free to run the next handler
Idle == request = NoRequest \/ response # NoResponse

\* the next request, with answers of answerInputs, arrives once the one
\* before it is answered
ReceiveFrom(answerInputs) ==
    /\ UNCHANGED <<pageVars, pdfVars>>
    /\ process = "listening"
    /\ Idle
    /\ pending = <<>>
    /\ Len(served) < MaxRequests
    /\ request' \in [body : BodyInputs(answerInputs)]
    /\ response' = NoResponse
    /\ UNCHANGED <<wizardConfig, submissions, emails, served,
                   process, files, disk, EMAIL_CONFIG, pending, listing>>

Receive == ReceiveFrom(ServerAnswerInputs)

NextServer == Startup \/ Receive \/ WizardSubmit

SpecServer == InitServer /\ [][NextServer]_vars

---------------------------------------------------------------------------
(* A server whose disk and mail service may fail *)

\* two requests that are scored and one without answers
BestEffortAnswerInputs ==
    {AnswersOf(4, 2, 3, 3, "conversion"), AnswersOf(2, 2, 2, 2, "retention"), Undefined}

\* the email settings: disabled, or enabled with an API key
EmailConfigInputs == {EmailDisabled, [enabled |-> TRUE, sendgridApiKey |-> TRUE]}

InitBestEffort ==
    /\ wizardConfig = MakeConfig("spread")
    /\ request = NoRequest
    /\ response = NoResponse
    /\ submissions = <<>>
    /\ emails = <<>>
    /\ served = <<>>
    /\ process = "listening"
    /\ files = [wizard_questions |-> FileOf(wizardConfig), fix_library |-> FileOf([type |-> "object"])]
    /\ disk = "ok"
    /\ EMAIL_CONFIG \in EmailConfigInputs
    /\ pending = <<>>
    /\ listing = NoResponse
    /\ NoPageNoPdf

ReceiveBestEffort == ReceiveFrom(BestEffortAnswerInputs)

\* reads and writes of the log start or stop failing
DiskFault ==
    /\ UNCHANGED <<pageVars, pdfVars>>
    /\ process = "listening"
    /\ disk' = IF disk = "ok" THEN "failing" ELSE "ok"
    /\ UNCHANGED <<wizardConfig, request, response, submissions, emails, served,
                   process, files, EMAIL_CONFIG, pending, listing>>

NextBestEffort == ReceiveBestEffort \/ WizardSubmit \/ EmailSettle \/ DiskFault

SpecBestEffort == InitBestEffort /\ [][NextBestEffort]_vars

---------------------------------------------------------------------------
(* A server whose log is written by /wizard_submit and read by /api/submissions *)

InitLog ==
    /\ wizardConfig = MakeConfig("spread")
    /\ request = NoRequest
    /\ response = NoResponse
    /\ submissions = <<>>
    /\ emails = <<>>
    /\ served = <<>>
    /\ process = "listening"
    /\ files = [wizard_questions |-> FileOf(wizardConfig), fix_library |-> FileOf([type |-> "object"])]
    /\ disk = "ok"
    /\ EMAIL_CONFIG = EmailDisabled
    /\ pending = <<>>
    /\ listing = NoResponse
    /\ NoPageNoPdf

\* a request that carries the name and the email address of its sender
ContactBody ==
    [answers |-> AnswersOf(3, 3, 3, 3, "pipeline"),
     client_id |-> JSString("wizard_2"),
     client_name |-> JSString("Acme Ltd"),
     email |-> JSString("ann@acme.example")]

ReceiveContact ==
    /\ UNCHANGED <<pageVars, pdfVars>>
    /\ process = "listening"
    /\ Idle
    /\ pending = <<>>
    /\ Len(served) < MaxRequests
    /\ request' = [body |-> ContactBody]
    /\ response' = NoResponse
    /\ UNCHANGED <<wizardConfig, submissions, emails, served,
                   process, files, disk, EMAIL_CONFIG, pending, listing>>

NextLog == ReceiveBestEffort \/ ReceiveContact \/ WizardSubmit \/ GetSubmissions \/ DiskFault

SpecLog == InitLog /\ [][NextLog]_vars

---------------------------------------------------------------------------
(* A server with several /wizard_submit requests in flight *)

ConcurrentAnswerInputs ==
    {AnswersOf(4, 2, 3, 3, "conversion"), AnswersOf(2, 2, 2, 2, "retention"), Undefined}

InitConcurrent ==
    /\ wizardConfig = MakeConfig("spread")
    /\ request = NoRequest
    /\ response = NoResponse
    /\ submissions = <<>>
    /\ emails = <<>>
    /\ served = <<>>
    /\ process = "listening"
    /\ files = [wizard_questions |-> FileOf(wizardConfig), fix_library |-> FileOf([type |-> "object"])]
    /\ disk = "ok"
    /\ EMAIL_CONFIG = [enabled |-> TRUE, sendgridApiKey |-> TRUE]
    /\ pending = <<>>
    /\ listing = NoResponse
    /\ NoPageNoPdf

\* the requests received and not yet answered
InFlight == Len(pending) + (IF Idle THEN 0 ELSE 1)

\* a request is received while others are running or waiting
Arrive ==
    /\ UNCHANGED <<pageVars, pdfVars>>
    /\ process = "listening"
    /\ Len(served) + InFlight < MaxRequests
    /\ \E r \in [body : BodyInputs(ConcurrentAnswerInputs)] : pending' = Append(pending, r)
    /\ UNCHANGED <<wizardConfig, request, response, submissions, emails, served,
                   process, files, disk, EMAIL_CONFIG, listing>>

\* the event loop starts the handler of one of the waiting requests
Dispatch ==
    /\ UNCHANGED <<pageVars, pdfVars>>
    /\ process = "listening"
    /\ Idle
    /\ \E i \in 1..Len(pending) :
        /\ request' = pending[i]
        /\ pending' = SubSeq(pending, 1, i - 1) \o SubSeq(pending, i + 1, Len(pending))
    /\ response' = NoResponse
    /\ UNCHANGED <<wizardConfig, submissions, emails, served,
                   process, files, disk, EMAIL_CONFIG, listing>>

NextConcurrent == Arrive \/ Dispatch \/ WizardSubmit \/ EmailSettle

SpecConcurrent == InitConcurrent /\ [][NextConcurrent]_vars

---------------------------------------------------------------------------
(* The results page (report_simple.js) *)

\* Array.prototype.sort with the comparator (a, b) => b.score - a.score: a is
\* placed before the first element it is strictly greater than (stable)
InsertByScoreDescending(sorted, a) ==
    LET before == {i \in 1..Len(sorted) : Less(sorted[i].score, a.score)}
        k == IF before = {} THEN Len(sorted) + 1
             ELSE CHOOSE i \in before : \A j \in before : i <= j
    IN  SubSeq(sorted, 1, k - 1) \o <<a>> \o SubSeq(sorted, k, Len(sorted))

RECURSIVE SortByScoreDescending(_)
SortByScoreDescending(loops) ==
    IF loops = <<>> THEN <<>>
    ELSE InsertByScoreDescending(SortByScoreDescending(SubSeq(loops, 1, Len(loops) - 1)),
                                 loops[Len(loops)])

\* the three loops with their scores in percent, sorted in place, highest first
loopScoresArrayOf(results) ==
    SortByScoreDescending(
        <<[name |-> "Pipeline", score |-> MathRound(Mul(results.loop_scores.Pipeline, Whole(100)))],
          [name |-> "Conversion", score |-> MathRound(Mul(results.loop_scores.Conversion, Whole(100)))],
          [name |-> "Expansion", score |-> MathRound(Mul(results.loop_scores.Expansion, Whole(100)))]>>)

\* the priority of the loop at place index (from 0) of the sorted copy
priorityOf(loop, index) ==
    IF index = 0 THEN (IF Less(loop.score, Whole(60)) THEN "High" ELSE "Medium")
    ELSE "Medium"

\* generatePriorityRecommendations: a copy of the array sorted lowest first,
\* each loop with its priority
generatePriorityRecommendations(loopScoresArray) ==
    LET sorted == SortByScore(loopScoresArray)
    IN  [i \in 1..Len(sorted) |->
            [loop |-> sorted[i].name, priority |-> priorityOf(sorted[i], i - 1)]]

\* the concern level that generateInsights gives the weakest loop
concernLevelOf(weakestLoop) ==
    IF Leq(Whole(70), weakestLoop.score) THEN "minor optimization opportunity"
    ELSE IF Leq(Whole(60), weakestLoop.score) THEN "area requiring attention"
    ELSE IF Leq(Whole(50), weakestLoop.score) THEN "primary area of concern"
    ELSE "critical priority"

\* renderReport: the parts of the page that depend on the scores
renderReport(results) ==
    LET loopScoresArray == loopScoresArrayOf(results)
        strongestLoop == loopScoresArray[1]
        weakestLoop == loopScoresArray[3]
    IN  [shown |-> "report",
         overallScore |-> MathRound(Mul(results.overall_ssi, Whole(100))),
         strongestLoop |-> strongestLoop,
         weakestLoop |-> weakestLoop,
         concernLevel |-> concernLevelOf(weakestLoop),
         recommendations |-> generatePriorityRecommendations(loopScoresArray)]

\* loadReport, run when the page has loaded
LoadReport ==
    /\ report = NoReport
    /\ report' = IF localStorage = Null THEN [shown |-> "no-data"]
                 ELSE renderReport(localStorage)
    /\ UNCHANGED <<serverVars, localStorage, pdfVars>>

\* the loop scores a stored result may have
ScoreInputs == {Rat(k, ScoreSteps) : k \in 0..ScoreSteps}

\* the results the wizard page may have stored
StoredResultInputs ==
    [overall_ssi : {Rat(13, 20)},
     loop_scores : [Pipeline : ScoreInputs, Conversion : ScoreInputs, Expansion : ScoreInputs]]

\* the results page is opened in a browser with or without stored results
InitReport ==
    /\ wizardConfig = MakeConfig("spread")
    /\ request = NoRequest
    /\ response = NoResponse
    /\ submissions = <<>>
    /\ emails = <<>>
    /\ served = <<>>
    /\ process = "listening"
    /\ files = [wizard_questions |-> FileOf(wizardConfig), fix_library |-> FileOf([type |-> "object"])]
    /\ disk = "ok"
    /\ EMAIL_CONFIG = EmailDisabled
    /\ pending = <<>>
    /\ listing = NoResponse
    /\ localStorage \in {Null} \cup StoredResultInputs
    /\ report = NoReport
    /\ pdfRequest = NoRequest
    /\ pdfPc = "idle"
    /\ browser = "none"
    /\ pdfResponse = NoResponse

NextReport == LoadReport

SpecReport == InitReport /\ [][NextReport]_vars

---------------------------------------------------------------------------
(* POST /api/generate-pdf *)

\* the handler up to its first await: the scores are read from the body, the
\* fixes and the insights are chosen and the HTML is built; reading the loop
\* scores of a body without loop_scores throws
PdfStart ==
    /\ process = "listening"
    /\ pdfRequest # NoRequest
    /\ pdfPc = "received"
    /\ IF pdfRequest.loop_scores = Undefined
       THEN /\ pdfResponse' = [status |-> 500, body |-> [error |-> "Failed to generate PDF"]]
            /\ pdfPc' = "done"
       ELSE /\ pdfPc' = "launch"
            /\ UNCHANGED pdfResponse
    /\ UNCHANGED <<serverVars, pageVars, pdfRequest, browser>>

\* await puppeteer.launch(...) settles
PdfLaunch ==
    /\ pdfPc = "launch"
    /\ \/ /\ browser' = "open"
          /\ pdfPc' = "newPage"
          /\ UNCHANGED pdfResponse
       \/ /\ pdfResponse' = [status |-> 500, body |-> [error |-> "Failed to generate PDF"]]
          /\ pdfPc' = "done"
          /\ UNCHANGED browser
    /\ UNCHANGED <<serverVars, pageVars, pdfRequest>>

\* await browser.newPage() settles
PdfNewPage ==
    /\ pdfPc = "newPage"
    /\ \/ /\ pdfPc' = "setContent"
          /\ UNCHANGED pdfResponse
       \/ /\ pdfResponse' = [status |-> 500, body |-> [error |-> "Failed to generate PDF"]]
          /\ pdfPc' = "done"
    /\ UNCHANGED <<serverVars, pageVars, pdfRequest, browser>>

\* await page.setContent(...) settles, or times out after 30 s
PdfSetContent ==
    /\ pdfPc = "setContent"
    /\ \/ /\ pdfPc' = "pdf"
          /\ UNCHANGED pdfResponse
       \/ /\ pdfResponse' = [status |-> 500, body |-> [error |-> "Failed to generate PDF"]]
          /\ pdfPc' = "done"
    /\ UNCHANGED <<serverVars, pageVars, pdfRequest, browser>>

\* await page.pdf(...) settles
PdfRender ==
    /\ pdfPc = "pdf"
    /\ \/ /\ pdfPc' = "close"
          /\ UNCHANGED pdfResponse
       \/ /\ pdfResponse' = [status |-> 500, body |-> [error |-> "Failed to generate PDF"]]
          /\ pdfPc' = "done"
    /\ UNCHANGED <<serverVars, pageVars, pdfRequest, browser>>

\* await browser.close() settles and the handler runs to its end: the file
\* name is built from clientName and the PDF is written to temp_pdfs
PdfClose ==
    /\ pdfPc = "close"
    /\ \/ /\ browser' = "closed"
          /\ pdfResponse' =
                IF pdfRequest.clientName = Undefined \/ disk = "failing"
                THEN [status |-> 500, body |-> [error |-> "Failed to generate PDF"]]
                ELSE [status |-> 200, body |-> [success |-> TRUE]]
       \/ /\ pdfResponse' = [status |-> 500, body |-> [error |-> "Failed to generate PDF"]]
          /\ UNCHANGED browser
    /\ pdfPc' = "done"
    /\ UNCHANGED <<serverVars, pageVars, pdfRequest>>

\* the bodies of the /api/generate-pdf requests
PdfBodyInputs ==
    [clientName : {Undefined, JSString("Acme Ltd")},
     overall_ssi : {Rat(13, 20)},
     loop_scores :
        {Undefined} \cup
        [Pipeline : {Zero, Rat(1, 2), One}, Conversion : {Zero, Rat(1, 2), One},
         Expansion : {Zero, Rat(1, 2), One}]]

\* a request for a PDF has been received by a server that has started
InitPdf ==
    /\ wizardConfig = MakeConfig("spread")
    /\ request = NoRequest
    /\ response = NoResponse
    /\ submissions = <<>>
    /\ emails = <<>>
    /\ served = <<>>
    /\ process = "listening"
    /\ files = [wizard_questions |-> FileOf(wizardConfig), fix_library |-> FileOf([type |-> "object"])]
    /\ disk \in {"ok", "failing"}
    /\ EMAIL_CONFIG = EmailDisabled
    /\ pending = <<>>
    /\ listing = NoResponse
    /\ localStorage = Null
    /\ report = NoReport
    /\ pdfRequest \in PdfBodyInputs
    /\ pdfPc = "received"
    /\ browser = "none"
    /\ pdfResponse = NoResponse

NextPdf == PdfStart \/ PdfLaunch \/ PdfNewPage \/ PdfSetContent \/ PdfRender \/ PdfClose

SpecPdf == InitPdf /\ [][NextPdf]_vars

---------------------------------------------------------------------------
(* Properties of the scoring engine *)

Answers == request.body.answers

\* the request was scored and answered with the scores
Scored == response.status = 200

Results == response.body.results

RatingQuestions ==
    <<"question_1_pipeline_health", "question_2_sales_conversion",
      "question_3_customer_success", "question_4_economics_and_efficiency">>

\* every rating of the request is one of the numbers 1..5
RatingsInRange ==
    /\ Answers # Undefined
    /\ \A i \in 1..4 :
        /\ Answers[RatingQuestions[i]].type = "number"
        /\ Answers[RatingQuestions[i]].num \in 1..5

TopChallenge == Answers.question_5_top_challenge

InUnitInterval(x) == Leq(Zero, x) /\ Leq(x, One)

CategoryKeys == {"pipeline", "conversion", "expansion", "economics"}

\* C1: for ratings in 1..5 and every top challenge, the overall score and the
\* three loop scores of the result lie in [0, 1]
C1_ScoresInUnitInterval ==
    (Scored /\ RatingsInRange) =>
        /\ InUnitInterval(Results.overall_ssi)
        /\ InUnitInterval(Results.loop_scores.Pipeline)
        /\ InUnitInterval(Results.loop_scores.Conversion)
        /\ InUnitInterval(Results.loop_scores.Expansion)

\* C2: for every top challenge the four weights of the overall score sum to
\* exactly 1, and so do the base weights
C2_WeightsSumToOne ==
    /\ SumValues(BaseWeights, CategoryKeys) = One
    /\ Scored =>
        SumValues(AdjustedWeights(StringOr(TopChallenge, "pipeline")), CategoryKeys) = One

\* the bundle the configuration holds for a rating of the request
BundleOf(q) == wizardConfig.questions[q].maps_to_metrics[NumberToString(Answers[q].num)]

\* the overall score under the base weights 0.30/0.30/0.25/0.15
BaseWeightedOverall ==
    Add(Add(Add(Mul(pipelineScoreOf(BundleOf("question_1_pipeline_health")), Rat(30, 100)),
                Mul(conversionScoreOf(BundleOf("question_2_sales_conversion")), Rat(30, 100))),
            Mul(expansionScoreOf(BundleOf("question_3_customer_success")), Rat(25, 100))),
        Mul(economicsScoreOf(BundleOf("question_4_economics_and_efficiency")), Rat(15, 100)))

\* the top challenge is a non-empty string other than the three mapped ones
UnrecognizedChallenge ==
    /\ Answers # Undefined
    /\ TopChallenge.type = "string"
    /\ TopChallenge.str \notin {"", "pipeline", "conversion", "retention"}

\* C5: a top challenge other than pipeline, conversion and retention leaves
\* the weights at the base values and the overall score is the base-weighted
\* sum of the four category scores (clamped)
C5_UnrecognizedIsNoAdjustment ==
    (Scored /\ RatingsInRange /\ UnrecognizedChallenge) =>
        /\ AdjustedWeights(TopChallenge.str) = BaseWeights
        /\ Results.overall_ssi = MathMax(Zero, MathMin(One, BaseWeightedOverall))

FocusOf == [pipeline |-> "pipeline", conversion |-> "conversion", retention |-> "expansion"]

\* C6: pipeline, conversion and retention each give their own category a
\* strictly larger weight, and every other category a strictly smaller one,
\* than an unrecognized top challenge does
C6_BoostIsStrict ==
    (Scored /\ UnrecognizedChallenge) =>
        \A c \in DOMAIN FocusOf : \A k \in CategoryKeys :
            IF k = FocusOf[c]
            THEN Less(AdjustedWeights(TopChallenge.str)[k], AdjustedWeights(c)[k])
            ELSE Less(AdjustedWeights(c)[k], AdjustedWeights(TopChallenge.str)[k])

\* some rating of the request parses to an integer outside 1..5
SomeRatingOutOfRange ==
    /\ Answers # Undefined
    /\ \E i \in 1..4 :
        LET n == parseInt(Answers[RatingQuestions[i]])
        IN  ~IsNaN(n) /\ (Less(n, One) \/ Less(Whole(5), n))

\* C7: a request with a rating that parses to an integer outside 1..5 is
\* answered with an error and no scores, never scored with a default
C7_OutOfRangeIsRejected ==
    (response # NoResponse /\ SomeRatingOutOfRange) =>
        /\ response.status = 500
        /\ "results" \notin DOMAIN response.body

\* the request's answers with every rating that is absent or does not parse
\* as a number set to 3
WithMissingAsThree(answers) ==
    [k \in DOMAIN answers |->
        IF (\E i \in 1..4 : RatingQuestions[i] = k) /\ IsNaN(parseInt(answers[k]))
        THEN JSNumber(3) ELSE answers[k]]

SomeRatingMissing ==
    /\ Answers # Undefined
    /\ \E i \in 1..4 : IsNaN(parseInt(Answers[RatingQuestions[i]]))

\* C8: a request with a rating that is absent or unparseable is answered as
\* the same request with that rating set to 3: the same scores,
\* recommendations and patterns, or the same failure
C8_MissingRatingScoredAsThree ==
    (response # NoResponse /\ SomeRatingMissing) =>
        \A expected \in {calculateScores(WithMissingAsThree(Answers))} :
            IF Threw(expected) THEN response.status = 500
            ELSE Scored /\ Results = expected

C8_Witness ==
    /\ Scored
    /\ Answers.question_1_pipeline_health = Undefined
    /\ Answers.question_2_sales_conversion = JSChars(<<"a", "b", "c">>)
    /\ Answers.question_3_customer_success = JSNumber(2)
    /\ Answers.question_4_economics_and_efficiency = JSNumber(1)
    /\ Results = calculateScores(
            [Answers EXCEPT !.question_1_pipeline_health = JSNumber(3),
                            !.question_2_sales_conversion = JSNumber(3)])
    /\ Len(Results.detected_patterns) = 1

Rating(q) == Answers[q].num

HasPattern(name) ==
    \E i \in 1..Len(Results.detected_patterns) : Results.detected_patterns[i].pattern = name

\* C9: pipeline_conversion_gap is detected exactly when the pipeline rating
\* is at least 4 and the conversion rating at most 2, and never together with
\* leaky_bucket
C9_PipelineConversionGap ==
    (Scored /\ RatingsInRange) =>
        /\ HasPattern("pipeline_conversion_gap") <=>
                (Rating("question_1_pipeline_health") >= 4
                    /\ Rating("question_2_sales_conversion") <= 2)
        /\ HasPattern("pipeline_conversion_gap") => ~HasPattern("leaky_bucket")

C9_Witness ==
    /\ Scored /\ RatingsInRange
    /\ Rating("question_1_pipeline_health") = 4
    /\ Rating("question_2_sales_conversion") = 2
    /\ Rating("question_3_customer_success") = 3
    /\ Rating("question_4_economics_and_efficiency") = 3
    /\ TopChallenge = JSString("conversion")
    /\ HasPattern("pipeline_conversion_gap")
    /\ ~HasPattern("leaky_bucket")

\* C10: systematic_issues is detected exactly when the pipeline, conversion
\* and expansion ratings are all at most 2, whatever the economics rating and
\* the top challenge
C10_SystematicIssues ==
    (Scored /\ RatingsInRange) =>
        (HasPattern("systematic_issues") <=>
            (Rating("question_1_pipeline_health") <= 2
                /\ Rating("question_2_sales_conversion") <= 2
                /\ Rating("question_3_customer_success") <= 2))

C10_Witness ==
    /\ Scored /\ RatingsInRange
    /\ \A i \in 1..4 : Rating(RatingQuestions[i]) = 2
    /\ HasPattern("systematic_issues")

Recommendations == Results.priority_recommendations

\* the nine metrics of the request in list order, with their unrounded scores
RequestMetrics ==
    allMetricsOf(BundleOf("question_1_pipeline_health"), BundleOf("question_2_sales_conversion"),
                 BundleOf("question_3_customer_success"),
                 BundleOf("question_4_economics_and_efficiency"))

\* the list position of the metric called name, 0 if there is none
PositionOf(metrics, name) ==
    IF \E k \in 1..Len(metrics) : metrics[k].name = name
    THEN CHOOSE k \in 1..Len(metrics) : metrics[k].name = name
    ELSE 0

\* the list positions of the recommended metrics
Positions(metrics, recs) == [i \in 1..Len(recs) |-> PositionOf(metrics, recs[i].name)]

\* metric k comes before metric l in a stable ascending sort by score
SortsBefore(metrics, k, l) ==
    \/ Less(metrics[k].score, metrics[l].score)
    \/ metrics[k].score = metrics[l].score /\ k < l

\* C3: the recommendations are the first five of the nine metrics in a stable
\* ascending sort by score: five distinct metrics of the list, in
\* non-decreasing score order, equal scores in list order, no omitted metric
\* sorting before an included one
C3_FiveLowestStable ==
    (Scored /\ RatingsInRange) =>
        \A metrics \in {RequestMetrics} : \A recs \in {Recommendations} :
        \A pos \in {Positions(metrics, recs)} :
            /\ Len(metrics) = 9
            /\ Len(recs) = 5
            /\ \A i \in 1..5 :
                /\ pos[i] \in 1..9
                /\ recs[i].loop = metrics[pos[i]].loop
                /\ recs[i].score = MathRound(Mul(metrics[pos[i]].score, Whole(100)))
            /\ \A i, j \in 1..5 :
                i < j =>
                    /\ pos[i] # pos[j]
                    /\ SortsBefore(metrics, pos[i], pos[j])
                    /\ Leq(recs[i].score, recs[j].score)
            /\ \A k \in 1..9 :
                (\A i \in 1..5 : pos[i] # k) => \A i \in 1..5 : SortsBefore(metrics, pos[i], k)

\* a result with equal scores among the recommendations, out of list order
\* somewhere, and an omitted metric that ties with the fifth recommendation
C3_Witness ==
    /\ Scored /\ RatingsInRange
    /\ \E metrics \in {RequestMetrics} : \E pos \in {Positions(metrics, Recommendations)} :
        /\ Len(Recommendations) = 5
        /\ \E i \in 1..4 : metrics[pos[i]].score = metrics[pos[i + 1]].score
        /\ \E i \in 1..4 : pos[i] > pos[i + 1]
        /\ \E k \in 1..9 :
            /\ \A i \in 1..5 : pos[i] # k
            /\ metrics[k].score = metrics[pos[5]].score

---------------------------------------------------------------------------
(* Properties of the detected patterns and the recommendation scores *)

\* the names of the detected patterns, in the order of the result
PatternNames == [i \in 1..Len(Results.detected_patterns) |-> Results.detected_patterns[i].pattern]

\* the rating the code uses for question q: the number, 3 when it is absent
UsedRating(q) == IF Answers[q] = Undefined THEN 3 ELSE Answers[q].num

\* the four ratings of the request are numbers 1..5 or absent
RatingsInRangeOrAbsent ==
    /\ Answers # Undefined
    /\ \A i \in 1..4 :
        \/ Answers[RatingQuestions[i]] = Undefined
        \/ /\ Answers[RatingQuestions[i]].type = "number"
           /\ Answers[RatingQuestions[i]].num \in 1..5

\* C11: a request whose four ratings all equal 3 has no detected pattern,
\* whatever its top challenge and the configuration
C11_BaselineHasNoPattern ==
    (Scored /\ RatingsInRangeOrAbsent /\ \A i \in 1..4 : UsedRating(RatingQuestions[i]) = 3) =>
        Results.detected_patterns = <<>>

C11_Witness ==
    /\ Scored /\ RatingsInRange
    /\ \A i \in 1..4 : Rating(RatingQuestions[i]) = 3
    /\ TopChallenge = JSString("retention")
    /\ wizardConfig = MakeConfig("extreme")
    /\ Results.detected_patterns = <<>>

\* the filter of a sequence, in order
RECURSIVE SelectNames(_, _)
SelectNames(names, keep) ==
    IF names = <<>> THEN <<>>
    ELSE (IF Head(names) \in keep THEN <<Head(names)>> ELSE <<>>)
            \o SelectNames(Tail(names), keep)

PatternOrder ==
    <<"pipeline_conversion_gap", "leaky_bucket", "systematic_issues", "unit_economics_problem">>

\* the patterns that the four ratings p, c, e, ec call for
PatternsOfRatings(p, c, e, ec) ==
    SelectNames(PatternOrder,
        {n \in {"pipeline_conversion_gap"} : p >= 4 /\ c <= 2}
            \cup {n \in {"leaky_bucket"} : c >= 4 /\ e <= 2}
            \cup {n \in {"systematic_issues"} : p <= 2 /\ c <= 2 /\ e <= 2}
            \cup {n \in {"unit_economics_problem"} : ec <= 2 /\ (p >= 3 \/ c >= 3)})

\* C12: the detected patterns are a function of the four ratings alone: under
\* every configuration and with every top challenge they are the patterns
\* that the ratings call for
C12_PatternsDependOnRatingsOnly ==
    (Scored /\ RatingsInRangeOrAbsent) =>
        PatternNames =
            PatternsOfRatings(UsedRating("question_1_pipeline_health"),
                              UsedRating("question_2_sales_conversion"),
                              UsedRating("question_3_customer_success"),
                              UsedRating("question_4_economics_and_efficiency"))

\* ratings 4, 2, 3, 3 under the configuration whose scores differ most from
\* the ratings, with a top challenge that reweights the overall score
C12_Witness ==
    /\ Scored /\ RatingsInRange
    /\ Rating("question_1_pipeline_health") = 4
    /\ Rating("question_2_sales_conversion") = 2
    /\ Rating("question_3_customer_success") = 3
    /\ Rating("question_4_economics_and_efficiency") = 3
    /\ TopChallenge = JSString("retention")
    /\ wizardConfig = MakeConfig("extreme")
    /\ Results.loop_scores.Pipeline = One
    /\ PatternNames = <<"pipeline_conversion_gap">>

\* the place of a pattern in the order of the tests
PatternRank(name) == CHOOSE k \in 1..Len(PatternOrder) : PatternOrder[k] = name

\* C13: the detected patterns come in the order pipeline_conversion_gap,
\* leaky_bucket, systematic_issues, unit_economics_problem, each at most once
C13_PatternsInFixedOrder ==
    Scored =>
        /\ \A i \in 1..Len(PatternNames) :
                \E k \in 1..Len(PatternOrder) : PatternOrder[k] = PatternNames[i]
        /\ \A i, j \in 1..Len(PatternNames) :
                i < j => PatternRank(PatternNames[i]) < PatternRank(PatternNames[j])

\* a critical pattern followed by a high one, and two patterns in test order
C13_Witness ==
    /\ Scored
    /\ PatternNames = <<"leaky_bucket", "unit_economics_problem">>
    /\ Results.detected_patterns[1].priority = "critical"
    /\ Results.detected_patterns[2].priority = "high"

\* C14: the score of every recommendation is an integer from 0 to 100
C14_RecommendationScoresInRange ==
    (Scored /\ RatingsInRange) =>
        \A i \in 1..Len(Results.priority_recommendations) :
            LET score == Results.priority_recommendations[i].score
            IN  score[2] = 1 /\ score[1] >= 0 /\ score[1] <= 100

---------------------------------------------------------------------------
(* Properties of the handlers and of startup *)

\* the current request has just been answered by this step
Answered == request # NoRequest /\ response = NoResponse /\ response' # NoResponse

\* C15: a request without answers is answered with 400 and nothing else
\* happens: no scores in the response, no record stored, no email started
C15_MissingAnswersRejected ==
    [][(Answered /\ request.body.answers = Undefined) =>
            /\ response'.status = 400
            /\ "results" \notin DOMAIN response'.body
            /\ submissions' = submissions
            /\ emails' = emails]_vars

\* a request without answers was rejected after a request was scored, stored
\* and notified
C15_Witness ==
    /\ Len(served) = 2
    /\ served[1].response.status = 200
    /\ served[2].body.answers = Undefined
    /\ served[2].response.status = 400
    /\ Len(submissions) = 1
    /\ Len(emails) = 1

\* the ratings of a request body are numbers 1..5
ScorableBody(body) ==
    /\ body.answers # Undefined
    /\ \A i \in 1..4 :
        /\ body.answers[RatingQuestions[i]].type = "number"
        /\ body.answers[RatingQuestions[i]].num \in 1..5

\* C16: a request that can be scored is answered with 200 and its scores
\* whether or not the log write and the email succeed, equal requests get
\* equal responses, the response is sent while the email is still being sent,
\* and the outcome of the send changes no response
C16_ResponseIgnoresStorageAndEmail ==
    /\ [](\A i \in 1..Len(served) :
            /\ ScorableBody(served[i].body) =>
                    served[i].response.status = 200
                        /\ "results" \in DOMAIN served[i].response.body
            /\ \A j \in 1..Len(served) :
                    served[i].body = served[j].body => served[i].response = served[j].response)
    /\ [][/\ (Answered /\ Len(emails') > Len(emails)) =>
                response'.status = 200 /\ emails'[Len(emails')].state = "pending"
          /\ (\E i \in 1..Len(emails) : emails[i].state = "pending" /\ emails'[i].state # "pending") =>
                response' = response /\ served' = served]_vars

\* the same request answered twice with the same scores, one of the two
\* writes failed, the first email failed and the second is still being sent
C16_Witness ==
    /\ Len(served) = 2
    /\ ScorableBody(served[1].body)
    /\ served[1].body = served[2].body
    /\ served[1].response.status = 200
    /\ served[1].response = served[2].response
    /\ Len(submissions) = 1
    /\ Len(emails) = 2
    /\ emails[1].state = "failed"
    /\ emails[2].state = "pending"

\* C17: every step leaves the log as it is or adds one record at its end, the
\* record of the request answered with 200 in that step; a read of the log
\* leaves it as it is
C17_LogOnlyGrows ==
    [][/\ \/ submissions' = submissions
          \/ /\ Len(submissions') = Len(submissions) + 1
             /\ SubSeq(submissions', 1, Len(submissions)) = submissions
             /\ Answered /\ response'.status = 200
             /\ submissions'[Len(submissions')].scores.overall_ssi =
                    response'.body.results.overall_ssi
       /\ listing' # listing => submissions' = submissions]_vars

\* two records were stored and then read
C17_Witness ==
    /\ Len(submissions) = 2
    /\ listing.status = 200
    /\ listing.body.total = 2
    /\ listing.body.submissions = submissions

\* the responses with status 200, in the order they were sent
RECURSIVE Accepted(_)
Accepted(s) ==
    IF s = <<>> THEN <<>>
    ELSE (IF Head(s).response.status = 200 THEN <<Head(s)>> ELSE <<>>) \o Accepted(Tail(s))

\* C18: with several requests in flight, the log holds one record per
\* accepted request, in the order the requests were answered
C18_NoLostUpdate ==
    \A accepted \in {Accepted(served)} :
        /\ Len(submissions) = Len(accepted)
        /\ \A k \in 1..Len(accepted) :
            /\ submissions[k].answers.pipeline_health =
                    accepted[k].body.answers.question_1_pipeline_health
            /\ submissions[k].scores.overall_ssi = accepted[k].response.body.results.overall_ssi

\* two different accepted requests are stored while a third request waits and
\* the email of the first is still being sent
C18_Witness ==
    /\ Len(submissions) = 2
    /\ submissions[1] # submissions[2]
    /\ Len(pending) = 1
    /\ emails[1].state = "pending"

\* both configuration files are there and can be parsed
ConfigFilesWellFormed ==
    /\ files.wizard_questions \notin {Missing, Malformed}
    /\ files.fix_library \notin {Missing, Malformed}

\* C19: the server listens only if both configuration files were read and
\* parsed; with a missing or unparsable file no request is received or answered
C19_NoStartWithoutConfig ==
    /\ process = "listening" => ConfigFilesWellFormed
    /\ (request # NoRequest \/ served # <<>>) => ConfigFilesWellFormed

\* the process has exited on an unparsable fix_library.json after loading
\* wizard_questions.json
C19_Witness ==
    /\ process = "exited"
    /\ files.wizard_questions \notin {Missing, Malformed}
    /\ files.fix_library = Malformed
    /\ wizardConfig # Undefined
    /\ served = <<>>

---------------------------------------------------------------------------
(* Further properties of the handlers and the scoring engine *)

\* C21: a successful response of GET /api/submissions has submissions, total
\* and total_all, total counts the returned records and is at most total_all
C21_ListingHasTotals ==
    listing.status = 200 =>
        /\ {"submissions", "total", "total_all"} \subseteq DOMAIN listing.body
        /\ listing.body.total = Len(listing.body.submissions)
        /\ listing.body.total <= listing.body.total_all

\* C24: a result has at most two patterns; pipeline_conversion_gap,
\* leaky_bucket and systematic_issues exclude one another and
\* systematic_issues excludes unit_economics_problem
C24_AtMostTwoPatterns ==
    Scored =>
        /\ Len(Results.detected_patterns) <= 2
        /\ \A a, b \in {"pipeline_conversion_gap", "leaky_bucket", "systematic_issues"} :
                (a # b /\ HasPattern(a)) => ~HasPattern(b)
        /\ HasPattern("systematic_issues") => ~HasPattern("unit_economics_problem")

\* a result with two patterns
C24_Witness ==
    /\ Scored
    /\ PatternNames = <<"pipeline_conversion_gap", "unit_economics_problem">>

\* the overall score with the pipeline weight boosted: 0.30 * 1.15 = 0.345,
\* and 0.345 + 0.30 + 0.25 + 0.15 = 1.045
PipelineBoostedOverall ==
    Add(Add(Add(Mul(pipelineScoreOf(BundleOf("question_1_pipeline_health")), Rat(345, 1045)),
                Mul(conversionScoreOf(BundleOf("question_2_sales_conversion")), Rat(300, 1045))),
            Mul(expansionScoreOf(BundleOf("question_3_customer_success")), Rat(250, 1045))),
        Mul(economicsScoreOf(BundleOf("question_4_economics_and_efficiency")), Rat(150, 1045)))

TopChallengeMissing == TopChallenge = Undefined \/ TopChallenge = JSString("")

\* C25: a request without a top challenge, or with an empty one, gets the
\* overall score of the top challenge 'pipeline'
C25_MissingChallengeIsPipeline ==
    (Scored /\ RatingsInRange /\ TopChallengeMissing) =>
        Results.overall_ssi = MathMax(Zero, MathMin(One, PipelineBoostedOverall))

\* an empty top challenge whose overall score is not the base-weighted one
C25_Witness ==
    /\ Scored /\ RatingsInRange
    /\ TopChallenge = JSString("")
    /\ Results.overall_ssi = MathMax(Zero, MathMin(One, PipelineBoostedOverall))
    /\ Results.overall_ssi # MathMax(Zero, MathMin(One, BaseWeightedOverall))

StoredRatingKeys ==
    <<"pipeline_health", "sales_conversion", "customer_success", "economics_efficiency">>

\* C26: the ratings stored in a record are the ratings its scores were
\* computed from
C26_StoredRatingsAreUsedRatings ==
    (Scored /\ RatingsInRangeOrAbsent) =>
        \A i \in 1..4 :
            submissions[Len(submissions)].answers[StoredRatingKeys[i]] =
                JSNumber(UsedRating(RatingQuestions[i]))

\* C22: no record of the log holds the email address or the name that a
\* request carried
C22_NoContactDataStored ==
    \A k \in 1..Len(submissions) : \A i \in 1..Len(served) :
        /\ served[i].body.email.type = "string" => submissions[k].email # served[i].body.email
        /\ served[i].body.client_name.type = "string" =>
                submissions[k].client_name # served[i].body.client_name

\* C29: a request whose scoring throws is answered with 500, stores no record
\* and starts no email
C29_FailedScoringStoresNothing ==
    [][(Answered /\ request.body.answers # Undefined /\ ~ScorableBody(request.body)) =>
            /\ response'.status = 500
            /\ submissions' = submissions
            /\ emails' = emails]_vars

\* a request failed after another one was stored and notified
C29_Witness ==
    /\ Len(served) = 2
    /\ served[1].response.status = 200
    /\ served[2].response.status = 500
    /\ served[2].body.answers.question_1_pipeline_health = JSNumber(6)
    /\ Len(submissions) = 1
    /\ Len(emails) = 1

\* the four ratings of an answered request
RatingsOf(entry) == [i \in 1..4 |-> entry.body.answers[RatingQuestions[i]]]

\* C30: answered requests with the same rating of a loop have the same score
\* of that loop, and with the same four ratings the same loop scores and
\* recommendations, whatever their top challenges and other ratings
C30_LoopScoresIgnoreChallenge ==
    \A i, j \in 1..Len(served) :
        (served[i].response.status = 200 /\ served[j].response.status = 200) =>
            \A ri \in {RatingsOf(served[i])} : \A rj \in {RatingsOf(served[j])} :
            \A a \in {served[i].response.body.results} :
            \A b \in {served[j].response.body.results} :
                /\ ri[1] = rj[1] => a.loop_scores.Pipeline = b.loop_scores.Pipeline
                /\ ri[2] = rj[2] => a.loop_scores.Conversion = b.loop_scores.Conversion
                /\ ri[3] = rj[3] => a.loop_scores.Expansion = b.loop_scores.Expansion
                /\ ri = rj =>
                        /\ a.loop_scores = b.loop_scores
                        /\ a.priority_recommendations = b.priority_recommendations

\* three answered requests with the same pipeline rating: two differ in the
\* top challenge and in the overall score, the third in the other ratings
C30_Witness ==
    /\ Len(served) = 3
    /\ \A i \in 1..3 : served[i].response.status = 200
    /\ RatingsOf(served[1]) = RatingsOf(served[2])
    /\ served[1].body.answers.question_5_top_challenge
            # served[2].body.answers.question_5_top_challenge
    /\ served[1].response.body.results.overall_ssi # served[2].response.body.results.overall_ssi
    /\ RatingsOf(served[3])[1] = RatingsOf(served[1])[1]
    /\ RatingsOf(served[3])[2] # RatingsOf(served[1])[2]
    /\ served[3].response.body.results.loop_scores.Pipeline
            = served[1].response.body.results.loop_scores.Pipeline

---------------------------------------------------------------------------
(* Properties of the results page and of the PDF handler *)

\* the score in percent of the loop called name in the stored result
StoredLoopScore(name) == MathRound(Mul(localStorage.loop_scores[name], Whole(100)))

\* C23: the three recommendations of the page are in ascending order of loop
\* score, the first has priority High and the other two Medium
C23_LowestLoopIsHigh ==
    report.shown = "report" =>
        \A recs \in {report.recommendations} :
            /\ Len(recs) = 3
            /\ \A i \in 1..2 : Leq(StoredLoopScore(recs[i].loop), StoredLoopScore(recs[i + 1].loop))
            /\ recs[1].priority = "High"
            /\ recs[2].priority = "Medium"
            /\ recs[3].priority = "Medium"

\* C28: the loop that the insights name as the weakest is the loop of the
\* first recommendation
C28_WeakestIsFirstRecommendation ==
    report.shown = "report" => report.weakestLoop.name = report.recommendations[1].loop

\* C27: when the request for a PDF has ended, a browser that was launched is
\* closed
C27_BrowserClosed ==
    (pdfPc = "done" /\ browser # "none") => browser = "closed"

====
